---- MODULE Spec2Model ----
(***************************************************************************)
(* UniprocExecutor (vllm/v1/executor/uniproc_executor.py): a single-process *)
(* executor that owns one Worker and forwards every call to it.            *)
(*                                                                         *)
(* The executor's methods are operators from (self, worker, host) and the  *)
(* outcomes of the Worker calls to the resulting (self, worker, host), the *)
(* list of Worker/host calls issued and the value returned or raised.      *)
(* The Worker and the host utilities are collaborators outside this file:  *)
(* they are modelled from their contract, every call either succeeding or  *)
(* failing with the error kind of that call.                               *)
(***************************************************************************)
EXTENDS Integers, Sequences, FiniteSets, TLC

\* ---------------------------------------------------------------- bounds
MaxBlocks == 2
MaxStepInput == 2
MaxStepOutput == 2
MaxPort == 1
MaxCalls == 2
NumThreads == 2

\* the device holds MaxBlocks cache blocks; a caller may ask for one more
Blocks == 1..MaxBlocks
BlockCounts == 1..(MaxBlocks + 1)
StepInputs == 1..MaxStepInput
StepOutputs == 1..MaxStepOutput
\* the configuration is opaque to the executor: one value stands for it
Configs == {1}
Ports == 1..MaxPort
Threads == 1..NumThreads

\* outcome of one Worker call: it succeeds, fails with its error kind, or
\* fails because the device faulted (the Worker is unhealthy afterwards)
Outcomes == {"ok", "fail", "fault"}
Platforms == {"cuda", "tpu"}
EnvValues == {"unset", "0", "1"}

VARIABLES self, worker, host, callerRef, calls, lastOp, lastArg, lastRet,
          ctorRet, hist, threads

vars == <<self, worker, host, callerRef, calls, lastOp, lastArg, lastRet,
          ctorRet, hist, threads>>

\* ------------------------------------------------------- values returned
None == <<>>
Ok(v) == [err |-> "none", val |-> v]
Raise(kind) == [err |-> kind, val |-> None]
Call(op, arg, ret) == [op |-> op, arg |-> arg, ret |-> ret]

\* ------------------------------------------------------------ the Worker
NoWorker ==
  [cls |-> "none", vllm_config |-> 0, local_rank |-> 0 - 1, rank |-> 0 - 1,
   distributed_init_method |-> None, initialized |-> FALSE, loaded |-> FALSE,
   free_blocks |-> 0, num_gpu_blocks |-> 0, warmed |-> FALSE,
   profiling |-> FALSE, healthy |-> TRUE,
   n_initialize |-> 0, n_load_model |-> 0, n_initialize_cache |-> 0]

Faulted(w, o) == IF o = "fault" THEN [w EXCEPT !.healthy = FALSE] ELSE w

WorkerClass(platform, vllm_config, local_rank, rank, distributed_init_method, free) ==
  [NoWorker EXCEPT !.cls = IF platform = "tpu" THEN "TPUWorker" ELSE "Worker",
                   !.vllm_config = vllm_config,
                   !.local_rank = local_rank,
                   !.rank = rank,
                   !.distributed_init_method = distributed_init_method,
                   !.free_blocks = free]

Worker_initialize(w, o) ==
  LET w1 == [w EXCEPT !.n_initialize = @ + 1] IN
  IF o = "ok" THEN [w |-> [w1 EXCEPT !.initialized = TRUE], ret |-> Ok(None)]
  ELSE [w |-> Faulted(w1, o), ret |-> Raise("DeviceBindError")]

Worker_load_model(w, o) ==
  LET w1 == [w EXCEPT !.n_load_model = @ + 1] IN
  IF o = "ok" THEN [w |-> [w1 EXCEPT !.loaded = TRUE], ret |-> Ok(None)]
  ELSE [w |-> Faulted(w1, o), ret |-> Raise("ModelLoadError")]

Worker_determine_num_available_blocks(w, o, cpu) ==
  IF o = "ok" THEN [w |-> w, ret |-> Ok(<<w.free_blocks, cpu>>)]
  ELSE [w |-> Faulted(w, o), ret |-> Raise("ProfilingError")]

Worker_initialize_cache(w, num_gpu_blocks, o) ==
  LET w1 == [w EXCEPT !.n_initialize_cache = @ + 1] IN
  IF o = "ok" /\ num_gpu_blocks <= w.free_blocks
  THEN [w |-> [w1 EXCEPT !.num_gpu_blocks = num_gpu_blocks], ret |-> Ok(None)]
  ELSE [w |-> Faulted(w1, o), ret |-> Raise("CacheAllocError")]

Worker_compile_or_warm_up_model(w, o) ==
  IF o = "ok" THEN [w |-> [w EXCEPT !.warmed = TRUE], ret |-> Ok(None)]
  ELSE [w |-> Faulted(w, o), ret |-> Raise("ExecutionError")]

Worker_execute_model(w, scheduler_output, o, out) ==
  IF o = "ok" THEN [w |-> w, ret |-> Ok(<<out>>)]
  ELSE [w |-> Faulted(w, o), ret |-> Raise("ExecutionError")]

Worker_profile(w, is_start, o) ==
  IF o = "ok" THEN [w |-> [w EXCEPT !.profiling = is_start], ret |-> Ok(None)]
  ELSE [w |-> Faulted(w, o), ret |-> Raise("ExecutionError")]

\* --------------------------------------------------------------- the host
get_ip == 127
get_distributed_init_method(ip, port) == <<ip, port>>

\* ------------------------------------------------------------ the executor
\* self before __init__ has run: no attribute is set
NoSelf == [vllm_config |-> 0, worker |-> "None"]

\* the result of one executor method
Result(s, w, h, cs, ret) ==
  [self |-> s, worker |-> w, host |-> h, calls |-> cs, ret |-> ret]


\* _create_worker that sets the environment flag on every platform
_create_workerAlwaysSetsFlag(s, h, local_rank, rank, distributed_init_method, port) ==
  LET h1 == [h EXCEPT !.environ = "0", !.n_env_sets = @ + 1]
      c1 == <<Call("environ_set", None, Ok(None))>>
      absent == distributed_init_method = None
      dim == IF absent
             THEN get_distributed_init_method(get_ip, port)
             ELSE distributed_init_method
      h2 == IF absent THEN [h1 EXCEPT !.n_ports = @ + 1] ELSE h1
      c2 == IF absent THEN <<Call("get_open_port", None, Ok(<<port>>))>> ELSE <<>>
      w == WorkerClass(h.platform, s.vllm_config, local_rank, rank, dim,
                       h.free_blocks)
  IN [worker |-> w,
      host |-> [h2 EXCEPT !.n_workers = @ + 1],
      calls |-> c1 \o c2 \o <<Call("WorkerClass", <<local_rank, rank>> \o dim, Ok(None))>>]


\* _create_worker that asks for a port whether or not an address was given
_create_workerAlwaysAllocates(s, h, local_rank, rank, distributed_init_method, port) ==
  LET cuda == h.platform = "cuda"
      h1 == IF cuda
            THEN [h EXCEPT !.environ = "0", !.n_env_sets = @ + 1]
            ELSE h
      c1 == IF cuda THEN <<Call("environ_set", None, Ok(None))>> ELSE <<>>
      dim == get_distributed_init_method(get_ip, port)
      h2 == [h1 EXCEPT !.n_ports = @ + 1]
      c2 == <<Call("get_open_port", None, Ok(<<port>>))>>
      w == WorkerClass(h.platform, s.vllm_config, local_rank, rank, dim,
                       h.free_blocks)
  IN [worker |-> w,
      host |-> [h2 EXCEPT !.n_workers = @ + 1],
      calls |-> c1 \o c2 \o <<Call("WorkerClass", <<local_rank, rank>> \o dim, Ok(None))>>]

\* _create_worker: the environment flag on CUDA, the address when none is
\* given, then the Worker object
_create_worker(s, h, local_rank, rank, distributed_init_method, port) ==
  LET cuda == h.platform = "cuda"
      h1 == IF cuda
            THEN [h EXCEPT !.environ = "0", !.n_env_sets = @ + 1]
            ELSE h
      c1 == IF cuda THEN <<Call("environ_set", None, Ok(None))>> ELSE <<>>
      absent == distributed_init_method = None
      dim == IF absent
             THEN get_distributed_init_method(get_ip, port)
             ELSE distributed_init_method
      h2 == IF absent THEN [h1 EXCEPT !.n_ports = @ + 1] ELSE h1
      c2 == IF absent THEN <<Call("get_open_port", None, Ok(<<port>>))>> ELSE <<>>
      w == WorkerClass(h.platform, s.vllm_config, local_rank, rank, dim,
                       h.free_blocks)
  IN [worker |-> w,
      host |-> [h2 EXCEPT !.n_workers = @ + 1],
      calls |-> c1 \o c2 \o <<Call("WorkerClass", <<local_rank, rank>> \o dim, Ok(None))>>]


\* __init__ that catches the exception of load_model and returns
__init__SwallowLoadError(vllm_config, h, port, o1, o2) ==
  LET s0 == [NoSelf EXCEPT !.vllm_config = vllm_config]
      cw == _create_worker(s0, h, 0, 0, None, port)
      s1 == [s0 EXCEPT !.worker = "w0"]
      r1 == Worker_initialize(cw.worker, o1)
      k1 == cw.calls \o <<Call("initialize", None, r1.ret)>>
      r2 == Worker_load_model(r1.w, o2)
      k2 == k1 \o <<Call("load_model", None, r2.ret)>>
  IN IF r1.ret.err # "none"
     THEN Result(s1, r1.w, cw.host, k1, r1.ret)
     ELSE Result(s1, r2.w, cw.host, k2, Ok(None))


\* __init__ that loads the model before it binds the device
__init__LoadFirst(vllm_config, h, port, o1, o2) ==
  LET s0 == [NoSelf EXCEPT !.vllm_config = vllm_config]
      cw == _create_worker(s0, h, 0, 0, None, port)
      s1 == [s0 EXCEPT !.worker = "w0"]
      r1 == Worker_load_model(cw.worker, o2)
      k1 == cw.calls \o <<Call("load_model", None, r1.ret)>>
      r2 == Worker_initialize(r1.w, o1)
      k2 == k1 \o <<Call("initialize", None, r2.ret)>>
  IN IF r1.ret.err # "none"
     THEN Result(s1, r1.w, cw.host, k1, r1.ret)
     ELSE IF r2.ret.err # "none"
     THEN Result(s1, r2.w, cw.host, k2, r2.ret)
     ELSE Result(s1, r2.w, cw.host, k2, Ok(None))

\* __init__: the configuration, the worker, then initialize and load_model;
\* an exception of either call leaves __init__ at that call
__init__(vllm_config, h, port, o1, o2) ==
  LET s0 == [NoSelf EXCEPT !.vllm_config = vllm_config]
      cw == _create_worker(s0, h, 0, 0, None, port)
      s1 == [s0 EXCEPT !.worker = "w0"]
      r1 == Worker_initialize(cw.worker, o1)
      k1 == cw.calls \o <<Call("initialize", None, r1.ret)>>
      r2 == Worker_load_model(r1.w, o2)
      k2 == k1 \o <<Call("load_model", None, r2.ret)>>
  IN IF r1.ret.err # "none"
     THEN Result(s1, r1.w, cw.host, k1, r1.ret)
     ELSE IF r2.ret.err # "none"
     THEN Result(s1, r2.w, cw.host, k2, r2.ret)
     ELSE Result(s1, r2.w, cw.host, k2, Ok(None))


\* determine_num_available_blocks that probes a second time when the first
\* probe failed
determine_num_available_blocksRetry(s, w, h, o, cpu) ==
  LET r1 == Worker_determine_num_available_blocks(w, o, cpu)
      k1 == <<Call("determine_num_available_blocks", None, r1.ret)>>
      r2 == Worker_determine_num_available_blocks(r1.w, "ok", cpu)
      k2 == k1 \o <<Call("determine_num_available_blocks", None, r2.ret)>>
  IN IF r1.ret.err = "none"
     THEN Result(s, r1.w, h, k1, r1.ret)
     ELSE Result(s, r2.w, h, k2, r2.ret)

\* determine_num_available_blocks that returns the pair the other way round
determine_num_available_blocksSwapped(s, w, h, o, cpu) ==
  LET r == Worker_determine_num_available_blocks(w, o, cpu)
      ret == IF r.ret.err = "none"
             THEN Ok(<<r.ret.val[2], r.ret.val[1]>>)
             ELSE r.ret
  IN Result(s, r.w, h, <<Call("determine_num_available_blocks", None, r.ret)>>, ret)

determine_num_available_blocks(s, w, h, o, cpu) ==
  LET r == Worker_determine_num_available_blocks(w, o, cpu)
  IN Result(s, r.w, h, <<Call("determine_num_available_blocks", None, r.ret)>>, r.ret)


\* initialize that warms up whether or not the cache was allocated
initializeWarmUpAlways(s, w, h, num_gpu_blocks, o1, o2) ==
  LET r1 == Worker_initialize_cache(w, num_gpu_blocks, o1)
      k1 == <<Call("initialize_cache", <<num_gpu_blocks>>, r1.ret)>>
      r2 == Worker_compile_or_warm_up_model(r1.w, o2)
      k2 == k1 \o <<Call("compile_or_warm_up_model", None, r2.ret)>>
  IN IF r1.ret.err # "none"
     THEN Result(s, r2.w, h, k2, r1.ret)
     ELSE IF r2.ret.err # "none"
     THEN Result(s, r2.w, h, k2, r2.ret)
     ELSE Result(s, r2.w, h, k2, Ok(None))


\* initialize that loads the model again before it allocates the cache
initializeReloadsModel(s, w, h, num_gpu_blocks, o1, o2) ==
  LET r0 == Worker_load_model(w, "ok")
      k0 == <<Call("load_model", None, r0.ret)>>
      r1 == Worker_initialize_cache(r0.w, num_gpu_blocks, o1)
      k1 == k0 \o <<Call("initialize_cache", <<num_gpu_blocks>>, r1.ret)>>
      r2 == Worker_compile_or_warm_up_model(r1.w, o2)
      k2 == k1 \o <<Call("compile_or_warm_up_model", None, r2.ret)>>
  IN IF r1.ret.err # "none"
     THEN Result(s, r1.w, h, k1, r1.ret)
     ELSE IF r2.ret.err # "none"
     THEN Result(s, r2.w, h, k2, r2.ret)
     ELSE Result(s, r2.w, h, k2, Ok(None))


\* initialize that keeps one block back as a safety margin
initializeOneBlockFewer(s, w, h, num_gpu_blocks, o1, o2) ==
  LET r1 == Worker_initialize_cache(w, num_gpu_blocks - 1, o1)
      k1 == <<Call("initialize_cache", <<num_gpu_blocks - 1>>, r1.ret)>>
      r2 == Worker_compile_or_warm_up_model(r1.w, o2)
      k2 == k1 \o <<Call("compile_or_warm_up_model", None, r2.ret)>>
  IN IF r1.ret.err # "none"
     THEN Result(s, r1.w, h, k1, r1.ret)
     ELSE IF r2.ret.err # "none"
     THEN Result(s, r2.w, h, k2, r2.ret)
     ELSE Result(s, r2.w, h, k2, Ok(None))

initialize(s, w, h, num_gpu_blocks, o1, o2) ==
  LET r1 == Worker_initialize_cache(w, num_gpu_blocks, o1)
      k1 == <<Call("initialize_cache", <<num_gpu_blocks>>, r1.ret)>>
      r2 == Worker_compile_or_warm_up_model(r1.w, o2)
      k2 == k1 \o <<Call("compile_or_warm_up_model", None, r2.ret)>>
  IN IF r1.ret.err # "none"
     THEN Result(s, r1.w, h, k1, r1.ret)
     ELSE IF r2.ret.err # "none"
     THEN Result(s, r2.w, h, k2, r2.ret)
     ELSE Result(s, r2.w, h, k2, Ok(None))


\* execute_model that post-processes the Worker's output
execute_modelTransformed(s, w, h, scheduler_output, o, out) ==
  LET r == Worker_execute_model(w, scheduler_output, o, out)
      output == IF r.ret.err = "none" THEN Ok(<<r.ret.val[1] + 1>>) ELSE r.ret
  IN Result(s, r.w, h, <<Call("execute_model", <<scheduler_output>>, r.ret)>>, output)

execute_model(s, w, h, scheduler_output, o, out) ==
  LET r == Worker_execute_model(w, scheduler_output, o, out)
      output == r.ret
  IN Result(s, r.w, h, <<Call("execute_model", <<scheduler_output>>, r.ret)>>, output)


\* profile that starts the trace whatever is_start says
profileAlwaysStarts(s, w, h, is_start, o) ==
  LET r == Worker_profile(w, TRUE, o)
  IN Result(s, r.w, h, <<Call("profile", <<1>>, r.ret)>>, r.ret)

profile(s, w, h, is_start, o) ==
  LET r == Worker_profile(w, is_start, o)
  IN IF r.ret.err # "none"
     THEN Result(s, r.w, h, <<Call("profile", <<IF is_start THEN 1 ELSE 0>>, r.ret)>>, r.ret)
     ELSE Result(s, r.w, h, <<Call("profile", <<IF is_start THEN 1 ELSE 0>>, r.ret)>>, Ok(None))


\* shutdown that drops the worker and fails when there is none left
shutdownReleaseOnce(s, w, h) ==
  IF s.worker = "None"
  THEN Result(s, w, h, <<>>, Raise("OrderingViolation"))
  ELSE Result([s EXCEPT !.worker = "None"], w, h, <<>>, Ok(None))

\* shutdown that asks the Worker to free its cache
shutdownFreeCache(s, w, h) ==
  LET ret == IF w.num_gpu_blocks = 0 THEN Raise("ExecutionError") ELSE Ok(None)
  IN Result(s, [w EXCEPT !.num_gpu_blocks = 0], h, <<Call("free_cache", None, ret)>>, ret)

shutdown(s, w, h) == Result(s, w, h, <<>>, Ok(None))


\* check_health that polls the Worker
check_healthPollWorker(s, w, h) ==
  IF w.healthy
  THEN Result(s, w, h, <<>>, Ok(None))
  ELSE Result(s, w, h, <<>>, Raise("WorkerUnhealthyError"))

check_health(s, w, h) == Result(s, w, h, <<>>, Ok(None))

\* ------------------------------------------------------------ the callers
\* where a thread of the caller is: in no method of the executor ("idle"),
\* or inside the Worker call of that name, issued with arg
Idle == [pc |-> "idle", arg |-> None]

\* what has happened on this executor so far
\* shutdowns: 0, 1, or 2 for two and more
NoHist == [det_ok |-> FALSE, init_ok |-> FALSE, shutdowns |-> 0]

Init ==
  /\ self = NoSelf
  /\ worker = NoWorker
  /\ \E p \in Platforms, e \in EnvValues :
       host = [platform |-> p, environ |-> e, free_blocks |-> MaxBlocks,
               n_env_sets |-> 0, n_ports |-> 0, n_workers |-> 0]
  /\ callerRef = FALSE
  /\ calls = <<>>
  /\ lastOp = "none"
  /\ lastArg = None
  /\ lastRet = Ok(None)
  /\ ctorRet = Ok(None)
  /\ hist = NoHist
  /\ threads = [t \in Threads |-> Idle]

\* the state after a method returned or raised
Apply(r, op, arg) ==
  /\ self' = r.self
  /\ worker' = r.worker
  /\ host' = r.host
  /\ calls' = r.calls
  /\ lastOp' = op
  /\ lastArg' = arg
  /\ lastRet' = r.ret
  /\ UNCHANGED threads

\* UniprocExecutor(vllm_config): the caller holds the executor only when
\* __init__ returned
Construct ==
  /\ lastOp = "none"
  /\ \E c \in Configs, port \in Ports, o1 \in Outcomes, o2 \in Outcomes :
       LET r == __init__(c, host, port, o1, o2) IN
       /\ Apply(r, "__init__", <<c>>)
       /\ callerRef' = (r.ret.err = "none")
       /\ ctorRet' = r.ret
  /\ UNCHANGED hist

DetermineNumAvailableBlocks ==
  /\ callerRef
  /\ \E o \in Outcomes, cpu \in Blocks :
       LET r == determine_num_available_blocks(self, worker, host, o, cpu) IN
       /\ Apply(r, "determine_num_available_blocks", None)
       /\ hist' = [hist EXCEPT !.det_ok = @ \/ r.ret.err = "none"]
  /\ UNCHANGED <<callerRef, ctorRet>>

Initialize ==
  /\ callerRef
  /\ worker.n_initialize_cache < MaxCalls
  /\ \E n \in BlockCounts, o1 \in Outcomes, o2 \in Outcomes :
       LET r == initialize(self, worker, host, n, o1, o2) IN
       /\ Apply(r, "initialize", <<n>>)
       /\ hist' = [hist EXCEPT !.init_ok = @ \/ r.ret.err = "none"]
  /\ UNCHANGED <<callerRef, ctorRet>>

ExecuteModel ==
  /\ callerRef
  /\ \E x \in StepInputs, o \in Outcomes, out \in StepOutputs :
       Apply(execute_model(self, worker, host, x, o, out), "execute_model", <<x>>)
  /\ UNCHANGED <<callerRef, ctorRet, hist>>

\* a profile call: profile(), profile(False) or profile(True)
ProfileArgs == {None, <<0>>, <<1>>}

\* the value of is_start in the method: True when the caller omits it
profile_is_start(arg) == IF arg = None THEN TRUE ELSE arg[1] = 1

Profile ==
  /\ callerRef
  /\ \E a \in ProfileArgs, o \in Outcomes :
       Apply(profile(self, worker, host, profile_is_start(a), o), "profile", a)
  /\ UNCHANGED <<callerRef, ctorRet, hist>>

Shutdown ==
  /\ callerRef
  /\ Apply(shutdown(self, worker, host), "shutdown", None)
  /\ hist' = [hist EXCEPT !.shutdowns = IF @ < 2 THEN @ + 1 ELSE 2]
  /\ UNCHANGED <<callerRef, ctorRet>>

CheckHealth ==
  /\ callerRef
  /\ Apply(check_health(self, worker, host), "check_health", None)
  /\ UNCHANGED <<callerRef, ctorRet, hist>>

Next ==
  \/ Construct
  \/ DetermineNumAvailableBlocks
  \/ Initialize
  \/ ExecuteModel
  \/ Profile
  \/ Shutdown
  \/ CheckHealth

Spec == Init /\ [][Next]_vars

\* ------------------------------------------- _create_worker on its own
\* the arguments of a _create_worker call: each of local_rank and rank is
\* omitted or given, the address is None or one of a few addresses
MaxRank == 1
Omitted == 0 - 1
RankArgs == {Omitted} \cup (0..MaxRank)
InitMethods ==
  {None} \cup {get_distributed_init_method(ip, p) : ip \in {get_ip, get_ip + 1}, p \in Ports}

\* the value of local_rank / rank in the method: 0 when the caller omits it
default_rank(arg) == IF arg = Omitted THEN 0 ELSE arg

\* self when __init__ calls _create_worker: the configuration is stored,
\* the worker is not yet
InitCreateWorker ==
  /\ \E c \in Configs : self = [NoSelf EXCEPT !.vllm_config = c]
  /\ worker = NoWorker
  /\ \E p \in Platforms, e \in EnvValues :
       host = [platform |-> p, environ |-> e, free_blocks |-> MaxBlocks,
               n_env_sets |-> 0, n_ports |-> 0, n_workers |-> 0]
  /\ callerRef = FALSE
  /\ calls = <<>>
  /\ lastOp = "none"
  /\ lastArg = None
  /\ lastRet = Ok(None)
  /\ ctorRet = Ok(None)
  /\ hist = NoHist
  /\ threads = [t \in Threads |-> Idle]

CreateWorker ==
  /\ host.n_workers < MaxCalls
  /\ \E lr \in RankArgs, r \in RankArgs, d \in InitMethods, port \in Ports :
       LET cw == _create_worker(self, host, default_rank(lr), default_rank(r), d, port) IN
       /\ worker' = cw.worker
       /\ host' = cw.host
       /\ calls' = cw.calls
       /\ lastOp' = "_create_worker"
       /\ lastArg' = <<lr, r>> \o d
       /\ lastRet' = Ok(None)
  /\ UNCHANGED <<self, callerRef, ctorRet, hist, threads>>

NextCreateWorker == CreateWorker

SpecCreateWorker == InitCreateWorker /\ [][NextCreateWorker]_vars

\* --------------------------------------------- several threads, one executor
\* a constructed executor: what UniprocExecutor(c) leaves when the Worker
\* bound its device and loaded its model
InitThreads ==
  /\ \E c \in Configs, port \in Ports, p \in Platforms, e \in EnvValues :
       LET h == [platform |-> p, environ |-> e, free_blocks |-> MaxBlocks,
                 n_env_sets |-> 0, n_ports |-> 0, n_workers |-> 0]
           r == __init__(c, h, port, "ok", "ok")
       IN /\ self = r.self
          /\ worker = r.worker
          /\ host = r.host
          /\ calls = r.calls
          /\ lastArg = <<c>>
          /\ lastRet = r.ret
          /\ ctorRet = r.ret
  /\ callerRef = TRUE
  /\ lastOp = "__init__"
  /\ hist = NoHist
  /\ threads = [t \in Threads |-> Idle]

\* the threads that are inside a Worker call
InFlight == {t \in Threads : threads[t].pc # "idle"}

\* the initialize_cache calls issued so far, returned or not
CacheCallsIssued ==
  worker.n_initialize_cache
    + Cardinality({t \in Threads : threads[t].pc = "initialize_cache"})

\* a thread enters a method of the executor; the method issues its Worker
\* call at once, whatever the other threads are doing
ThreadCallDetermine(t) ==
  /\ threads[t].pc = "idle"
  /\ threads' = [threads EXCEPT ![t] =
                   [pc |-> "determine_num_available_blocks", arg |-> None]]
  /\ UNCHANGED <<self, worker, host, callerRef, calls, lastOp, lastArg,
                 lastRet, ctorRet, hist>>

ThreadCallInitialize(t) ==
  /\ threads[t].pc = "idle"
  /\ CacheCallsIssued < MaxCalls
  /\ \E n \in BlockCounts :
       threads' = [threads EXCEPT ![t] = [pc |-> "initialize_cache", arg |-> <<n>>]]
  /\ UNCHANGED <<self, worker, host, callerRef, calls, lastOp, lastArg,
                 lastRet, ctorRet, hist>>

ThreadCallExecuteModel(t) ==
  /\ threads[t].pc = "idle"
  /\ \E x \in StepInputs :
       threads' = [threads EXCEPT ![t] = [pc |-> "execute_model", arg |-> <<x>>]]
  /\ UNCHANGED <<self, worker, host, callerRef, calls, lastOp, lastArg,
                 lastRet, ctorRet, hist>>

ThreadCallProfile(t) ==
  /\ threads[t].pc = "idle"
  /\ \E a \in ProfileArgs :
       threads' = [threads EXCEPT ![t] =
                     [pc |-> "profile",
                      arg |-> <<IF profile_is_start(a) THEN 1 ELSE 0>>]]
  /\ UNCHANGED <<self, worker, host, callerRef, calls, lastOp, lastArg,
                 lastRet, ctorRet, hist>>

\* the Worker call a thread is in returns or raises; initialize goes on to
\* compile_or_warm_up_model when initialize_cache returned, every other
\* method is over
ThreadWorkerReturn(t) ==
  /\ threads[t].pc # "idle"
  /\ \E o \in Outcomes, cpu \in Blocks, out \in StepOutputs :
       LET pc == threads[t].pc
           arg == threads[t].arg
           r == CASE pc = "determine_num_available_blocks" ->
                       Worker_determine_num_available_blocks(worker, o, cpu)
                  [] pc = "initialize_cache" ->
                       Worker_initialize_cache(worker, arg[1], o)
                  [] pc = "compile_or_warm_up_model" ->
                       Worker_compile_or_warm_up_model(worker, o)
                  [] pc = "execute_model" ->
                       Worker_execute_model(worker, arg[1], o, out)
                  [] pc = "profile" ->
                       Worker_profile(worker, arg[1] = 1, o)
       IN /\ worker' = r.w
          /\ threads' = [threads EXCEPT ![t] =
                           IF pc = "initialize_cache" /\ r.ret.err = "none"
                           THEN [pc |-> "compile_or_warm_up_model", arg |-> None]
                           ELSE Idle]
  /\ UNCHANGED <<self, host, callerRef, calls, lastOp, lastArg, lastRet,
                 ctorRet, hist>>

NextThreads ==
  \E t \in Threads :
    \/ ThreadCallDetermine(t)
    \/ ThreadCallInitialize(t)
    \/ ThreadCallExecuteModel(t)
    \/ ThreadCallProfile(t)
    \/ ThreadWorkerReturn(t)

SpecThreads == InitThreads /\ [][NextThreads]_vars

\* ------------------------------------------------------------- properties
WorkerCalls == {"determine_num_available_blocks", "initialize_cache",
                "compile_or_warm_up_model", "execute_model", "profile"}

\* the caller can reach a Worker handle only through an executor it holds
WorkerReachable == callerRef /\ self.worker # "None"

\* C1: execute_model on an executor whose initialize has not completed
\* successfully fails with OrderingViolation and issues no Worker call.
C1_ExecuteBeforeInitializeFails ==
  (lastOp = "execute_model" /\ ~hist.init_ok) =>
    (lastRet.err = "OrderingViolation" /\ calls = <<>>)

\* C2: after construction either the caller holds an executor whose Worker
\* is initialized and has its model loaded, or construction raised the error
\* of the Worker call that failed (DeviceBindError of initialize,
\* ModelLoadError of load_model) and the caller holds neither an executor
\* nor a Worker handle.
C2_ConstructionAllOrNothing ==
  lastOp # "none" =>
    \/ /\ callerRef
       /\ ctorRet = Ok(None)
       /\ self.worker = "w0"
       /\ worker.initialized
       /\ worker.loaded
    \/ /\ ~callerRef
       /\ ~WorkerReachable
       /\ ctorRet = calls[Len(calls)].ret
       /\ \/ /\ ctorRet.err = "DeviceBindError"
             /\ calls[Len(calls)].op = "initialize"
             /\ ~worker.initialized
          \/ /\ ctorRet.err = "ModelLoadError"
             /\ calls[Len(calls)].op = "load_model"
             /\ worker.initialized
             /\ ~worker.loaded

C2_Witness ==
  /\ lastOp = "__init__"
  /\ ctorRet.err = "ModelLoadError"
  /\ ~callerRef

\* C3: initialize(n) issues initialize_cache(n) first and
\* compile_or_warm_up_model second, the second only when the first
\* returned, and nothing else.
C3_InitializeOrder ==
  lastOp = "initialize" =>
    /\ Len(calls) \in {1, 2}
    /\ calls[1].op = "initialize_cache"
    /\ calls[1].arg = lastArg
    /\ (calls[1].ret.err # "none") => (Len(calls) = 1 /\ lastRet = calls[1].ret)
    /\ (calls[1].ret.err = "none") =>
         (Len(calls) = 2 /\ calls[2].op = "compile_or_warm_up_model")

C3_Witness ==
  /\ lastOp = "initialize"
  /\ calls[1].ret.err = "CacheAllocError"
  /\ Len(calls) = 1
  /\ ~worker.warmed

\* C4: once an initialize call has succeeded, a further initialize call
\* issues no Worker call and is reported as an ordering violation, so
\* initialize_cache is not invoked again.
C4_InitializeCacheAtMostOnce ==
  [][(hist.init_ok /\ lastOp' = "initialize") =>
       /\ calls' = <<>>
       /\ lastRet'.err = "OrderingViolation"
       /\ worker'.n_initialize_cache = worker.n_initialize_cache]_vars

\* C5: initialize_cache is invoked only on an executor on which a
\* determine_num_available_blocks call has returned successfully.
C5_NoTransitionSkipped ==
  (\E i \in 1..Len(calls) : calls[i].op = "initialize_cache") => hist.det_ok

\* C6: an execute_model call made after a successful initialize issues
\* exactly one Worker execute_model call with the same step input, returns
\* (or raises) exactly what that call returned, and leaves the executor's
\* attributes as they were.
C6_ExecutePassThrough ==
  [][(hist.init_ok /\ lastOp' = "execute_model") =>
       /\ Len(calls') = 1
       /\ calls'[1].op = "execute_model"
       /\ calls'[1].arg = lastArg'
       /\ lastRet' = calls'[1].ret
       /\ self' = self]_vars

C6_Witness ==
  /\ lastOp = "execute_model"
  /\ hist.init_ok
  /\ lastRet.err = "none"
  /\ lastRet.val = <<MaxStepOutput>>

\* C7: a shutdown call that directly follows a shutdown call succeeds and
\* leaves the executor, the Worker and the process-wide state as the first
\* call left them.
C7_ShutdownIdempotent ==
  [][(lastOp = "shutdown" /\ lastOp' = "shutdown") =>
       /\ self' = self
       /\ worker' = worker
       /\ host' = host
       /\ calls' = calls
       /\ lastRet' = Ok(None)
       /\ lastRet = Ok(None)]_vars

C7_Witness ==
  /\ lastOp = "shutdown"
  /\ hist.shutdowns = 2

\* C8: after the first shutdown the executor holds no Worker and no later
\* determine_num_available_blocks, initialize, execute_model or profile
\* call issues a Worker call.
C8_ShutdownReleasesWorker ==
  hist.shutdowns > 0 =>
    /\ self.worker = "None"
    /\ \A i \in 1..Len(calls) : calls[i].op \notin WorkerCalls

\* C9: shutdown returns normally and issues no Worker call, in every state
\* it is called in.
C9_ShutdownNeverRaises ==
  lastOp = "shutdown" => (lastRet.err = "none" /\ calls = <<>>)

C9_Witness ==
  /\ lastOp = "shutdown"
  /\ hist.shutdowns = 2
  /\ ~hist.init_ok
  /\ worker.num_gpu_blocks = 0

\* C10: check_health returns normally, before and after shutdown, whatever
\* the Worker's health.
C10_CheckHealthAlwaysHealthy ==
  lastOp = "check_health" => lastRet = Ok(None)

C10_Witness ==
  /\ lastOp = "check_health"
  /\ ~worker.healthy
  /\ hist.shutdowns = 0

\* C11: whenever a Worker call issued by an executor method fails, it is the
\* last call of that method, the method raises exactly that failure, and no
\* Worker operation was invoked twice by the method.
C11_NoRecoveryNoRetry ==
  /\ \A i \in 1..Len(calls) :
       calls[i].ret.err # "none" => (i = Len(calls) /\ lastRet = calls[i].ret)
  /\ \A i, j \in 1..Len(calls) : calls[i].op = calls[j].op => i = j
  /\ lastRet.err # "none" =>
       (Len(calls) > 0 /\ lastRet = calls[Len(calls)].ret)

C11_Witness ==
  /\ lastOp = "determine_num_available_blocks"
  /\ lastRet.err = "ProfilingError"
  /\ Len(calls) = 1

\* C12: a determine_num_available_blocks call issues exactly one Worker
\* determine_num_available_blocks call, returns its pair unchanged and
\* leaves the executor's attributes as they were; it can be called again
\* and again before the cache is initialized.
C12_DetermineForwardsStateless ==
  [][(lastOp' = "determine_num_available_blocks") =>
       /\ Len(calls') = 1
       /\ calls'[1].op = "determine_num_available_blocks"
       /\ lastRet' = calls'[1].ret
       /\ lastRet'.err = "none" => Len(lastRet'.val) = 2
       /\ self' = self
       /\ callerRef' = callerRef]_vars

C12_Witness ==
  /\ lastOp = "determine_num_available_blocks"
  /\ hist.det_ok
  /\ ~hist.init_ok
  /\ lastRet = Ok(<<MaxBlocks, 1>>)

\* position of the first call of an operation in the calls of a method
\* (0 when the method did not issue it)
CallIndex(op) ==
  IF \E i \in 1..Len(calls) : calls[i].op = op
  THEN CHOOSE i \in 1..Len(calls) :
         calls[i].op = op /\ \A j \in 1..(i - 1) : calls[j].op # op
  ELSE 0

\* C13: construction sets the environment flag NCCL_CUMEM_ENABLE to '0'
\* exactly once on CUDA, before the Worker is created and before
\* Worker.initialize, and leaves it as it was on TPU; no method called after
\* construction changes or sets the flag.
C13_EnvFlagOnceBeforeWorker ==
  [][/\ (lastOp = "none" /\ lastOp' = "__init__" /\ host.platform = "cuda") =>
          /\ host'.environ = "0"
          /\ host'.n_env_sets = 1
          /\ calls'[1].op = "environ_set"
          /\ \A i \in 2..Len(calls') : calls'[i].op # "environ_set"
     /\ (lastOp = "none" /\ lastOp' = "__init__" /\ host.platform = "tpu") =>
          /\ host'.environ = host.environ
          /\ host'.n_env_sets = 0
          /\ \A i \in 1..Len(calls') : calls'[i].op # "environ_set"
     /\ (lastOp # "none") =>
          /\ host'.environ = host.environ
          /\ host'.n_env_sets = host.n_env_sets
          /\ \A i \in 1..Len(calls') : calls'[i].op # "environ_set"]_vars

C13_Witness ==
  /\ host.platform = "tpu"
  /\ host.environ = "1"
  /\ host.n_env_sets = 0
  /\ lastOp = "execute_model"

\* C15: construction calls Worker.initialize before Worker.load_model, and
\* load_model only when initialize returned: after a DeviceBindError
\* load_model has not been called.
C15_InitializeBeforeLoadModel ==
  /\ lastOp = "__init__" =>
       /\ CallIndex("initialize") > 0
       /\ CallIndex("load_model") > 0 =>
            /\ CallIndex("initialize") < CallIndex("load_model")
            /\ calls[CallIndex("initialize")].ret.err = "none"
       /\ ctorRet.err = "DeviceBindError" =>
            (CallIndex("load_model") = 0 /\ worker.n_load_model = 0)
  /\ worker.n_load_model > 0 => worker.initialized

C15_Witness ==
  /\ lastOp = "__init__"
  /\ ctorRet.err = "DeviceBindError"
  /\ worker.n_initialize = 1

\* C18: an executor the caller holds has the one Worker its construction
\* created, and that Worker's initialize and load_model have been invoked
\* exactly once, whatever methods were called since.
C18_OneWorkerInitializedOnce ==
  /\ host.n_workers <= 1
  /\ worker.n_initialize <= 1
  /\ worker.n_load_model <= 1
  /\ callerRef =>
       /\ self.worker = "w0"
       /\ host.n_workers = 1
       /\ worker.n_initialize = 1
       /\ worker.n_load_model = 1
  /\ lastOp \notin {"none", "__init__"} =>
       \A i \in 1..Len(calls) :
         calls[i].op \notin {"WorkerClass", "initialize", "load_model"}

C18_Witness ==
  /\ callerRef
  /\ hist.det_ok
  /\ hist.init_ok
  /\ hist.shutdowns > 0
  /\ worker.n_initialize_cache = MaxCalls
  /\ lastOp = "check_health"

\* the lifecycle of the executor: what it holds, what its Worker has been
\* taken through, and what has been called on it
Lifecycle ==
  [self |-> self, callerRef |-> callerRef, hist |-> hist, host |-> host,
   initialized |-> worker.initialized, loaded |-> worker.loaded,
   num_gpu_blocks |-> worker.num_gpu_blocks, warmed |-> worker.warmed,
   n_initialize |-> worker.n_initialize, n_load_model |-> worker.n_load_model,
   n_initialize_cache |-> worker.n_initialize_cache]

\* C19: profile(is_start) issues exactly one Worker profile call with the
\* same is_start, True when the caller omitted it; check_health issues no
\* Worker call; neither changes the lifecycle of the executor, so whatever
\* could be called before can be called after and nothing else.
C19_ProfileAndHealthNoLifecycleEffect ==
  [][/\ (lastOp' = "profile") =>
          /\ Len(calls') = 1
          /\ calls'[1].op = "profile"
          /\ calls'[1].arg = (IF lastArg' = None THEN <<1>> ELSE lastArg')
          /\ lastRet' = calls'[1].ret
          /\ Lifecycle' = Lifecycle
     /\ (lastOp' = "check_health") =>
          /\ calls' = <<>>
          /\ worker' = worker
          /\ Lifecycle' = Lifecycle]_vars

C19_Witness ==
  /\ lastOp = "profile"
  /\ lastArg = None
  /\ lastRet = Ok(None)
  /\ worker.profiling
  /\ ~hist.init_ok

\* an initialize(g) call with the g that a successful
\* determine_num_available_blocks call of this Worker reports (the Worker
\* reports the blocks its device holds)
HonestInitialize ==
  /\ lastOp = "initialize"
  /\ hist.det_ok
  /\ lastArg = <<worker.free_blocks>>

\* the executor has its cache allocated for g blocks and is warmed up
CacheReady(g) ==
  /\ hist.init_ok
  /\ worker.num_gpu_blocks = g
  /\ worker.warmed

PortsRequested ==
  {i \in 1..Len(calls) : calls[i].op = "get_open_port"}

\* C16: _create_worker gives the Worker local rank 0 and rank 0 when the
\* caller names none (as __init__ does); it asks the host for a port exactly
\* when no address is given: a given address reaches the Worker unchanged
\* and no port is requested, an absent one is replaced by the address made
\* of the host's address and the one port requested.
C16_AddressAllocatedOnlyWhenAbsent ==
  lastOp = "_create_worker" =>
    LET lr == lastArg[1]
        r == lastArg[2]
        d == SubSeq(lastArg, 3, Len(lastArg))
    IN /\ worker.local_rank = (IF lr = Omitted THEN 0 ELSE lr)
       /\ worker.rank = (IF r = Omitted THEN 0 ELSE r)
       /\ d # None =>
            /\ PortsRequested = {}
            /\ worker.distributed_init_method = d
       /\ d = None =>
            /\ Cardinality(PortsRequested) = 1
            /\ \A i \in PortsRequested :
                 worker.distributed_init_method =
                   get_distributed_init_method(get_ip, calls[i].ret.val[1])

C16_Witness ==
  /\ lastOp = "_create_worker"
  /\ lastArg = <<Omitted, Omitted>>
  /\ worker.local_rank = 0
  /\ worker.rank = 0
  /\ worker.distributed_init_method = <<get_ip, MaxPort>>
  /\ host.n_ports = 1

\* C17: at most one Worker call issued through the executor is in flight at
\* any time, also when two threads call methods of the same executor.
C17_WorkerCallsNeverOverlap ==
  Cardinality(InFlight) <= 1

====
